---- MODULE Spec2Model ----
(***************************************************************************)
(* Patient monitoring core of am23219/data-pipeline:                       *)
(*   - SimpleAnomalyDetector.check_vital_thresholds                        *)
(*       (src/src/anomaly_detection/detector.py)                           *)
(*   - PatientAlertManager.process_anomalies / get_patient_alerts /        *)
(*       export_alerts_to_json                                             *)
(*       (src/src/alerting/alert_manager.py)                               *)
(*   - VITAL_RANGES, ALERT_LEVELS (src/config/settings.py)                 *)
(*                                                                         *)
(*   - StatisticalAnomalyDetector.add_to_history / detect_anomalies        *)
(*       (src/src/anomaly_detection/detector.py)                           *)
(*                                                                         *)
(* Specifications:                                                         *)
(*   Spec          the alert manager, one call at a time                   *)
(*   SpecEval      check_vital_thresholds applied to one record            *)
(*   SpecConc      process_anomalies called from several threads at once   *)
(*   SpecExport    export_alerts_to_json beside process_anomalies calls    *)
(*   SpecPipeline  check_vital_thresholds, then process_anomalies          *)
(*   SpecRanges    a detector constructed on a range table, then used      *)
(*   SpecAlias     the caller's objects held by a stored alert             *)
(*   SpecPar       check_vital_thresholds run by several threads at once   *)
(*   SpecLevel     the level of one alert, over lists of severities        *)
(*   SpecStat      the statistical detector, call after call               *)
(*                                                                         *)
(* Numbers: temperatures are Python floats with one decimal; they are      *)
(* modelled in tenths of a degree (36.0 -> 360), every other vital in its  *)
(* own unit.  A Python str is a tuple of one-character strings.            *)
(***************************************************************************)
EXTENDS Integers, Sequences, FiniteSets, TLC

VARIABLES
    patient_data,   \* the record handed to check_vital_thresholds
    anomalies,      \* the list check_vital_thresholds returned
    eval_status,    \* "ready" | "returned" | "raised"
    alert_history,  \* PatientAlertManager.alert_history: patient_id -> list object
    lists,          \* the list objects of alert_history, by identity
    sink,           \* what the logger's handlers have written
    calls,          \* every process_anomalies call made so far, in call order
    ret,            \* outcome of the last PatientAlertManager call
    pc,             \* per thread: position inside process_anomalies
    args,           \* per thread: the arguments of its call
    seen,           \* per thread: result of `patient_id not in alert_history`
    ref,            \* per thread: the list object loaded for .append
    export,         \* the export_alerts_to_json call: position and document
    snapshots,      \* every content alert_history had while the export ran
    vital_ranges,   \* SimpleAnomalyDetector.vital_ranges
    detector,       \* "none" | "constructed" | "failed": SimpleAnomalyDetector()
    objects,        \* the lists and dicts the caller shares with the manager
    evals,          \* per thread: a check_vital_thresholds call under way
    stat            \* the StatisticalAnomalyDetector object

evalVars == <<patient_data, anomalies, eval_status>>
mgrVars == <<alert_history, lists, sink, calls, ret>>
thrVars == <<pc, args, seen, ref>>
expVars == <<export, snapshots>>
detVars == <<vital_ranges, detector>>
auxVars == <<objects, evals, stat>>
vars == <<patient_data, anomalies, eval_status, alert_history, lists, sink,
          calls, ret, pc, args, seen, ref, export, snapshots, vital_ranges,
          detector, objects, evals, stat>>

-----------------------------------------------------------------------------
(* Python values of a JSON record *)

Num(n) == [kind |-> "num", num |-> n, str |-> <<>>]
Str(s) == [kind |-> "str", num |-> 0, str |-> s]
Null == [kind |-> "null", num |-> 0, str |-> <<>>]

\* bool(v): None, 0 and "" are falsy
Truthy(v) ==
    CASE v.kind = "null" -> FALSE
      [] v.kind = "num" -> v.num # 0
      [] v.kind = "str" -> v.str # <<>>

-----------------------------------------------------------------------------
(* config/settings.py *)

VITAL_RANGES ==
    [heart_rate |-> [min |-> 60, max |-> 100, critical_min |-> 40, critical_max |-> 130],
     temperature |-> [min |-> 360, max |-> 375, critical_min |-> 350, critical_max |-> 385],
     oxygen_saturation |-> [min |-> 95, max |-> 100, critical_min |-> 90, critical_max |-> 100],
     respiratory_rate |-> [min |-> 12, max |-> 20, critical_min |-> 10, critical_max |-> 25],
     blood_pressure_systolic |-> [min |-> 90, max |-> 120, critical_min |-> 80, critical_max |-> 180],
     blood_pressure_diastolic |-> [min |-> 60, max |-> 80, critical_min |-> 50, critical_max |-> 110]]

PULSE_PRESSURE_LIMIT == 50

-----------------------------------------------------------------------------
(* str.split("/") and int(str) *)

DigitChars == <<"0", "1", "2", "3", "4", "5", "6", "7", "8", "9">>

IsDigit(c) == \E i \in 1..10 : DigitChars[i] = c

DigitValue(c) == (CHOOSE i \in 1..10 : DigitChars[i] = c) - 1

\* s.split(sep): the maximal pieces between separators, at least one piece
RECURSIVE SplitFrom(_, _, _, _)
SplitFrom(s, sep, i, cur) ==
    IF i > Len(s) THEN <<cur>>
    ELSE IF s[i] = sep THEN <<cur>> \o SplitFrom(s, sep, i + 1, <<>>)
    ELSE SplitFrom(s, sep, i + 1, Append(cur, s[i]))

Split(s, sep) == SplitFrom(s, sep, 1, <<>>)

\* str.strip() of blanks, as int() does before reading the literal
RECURSIVE LStrip(_)
LStrip(s) == IF s # <<>> /\ Head(s) = " " THEN LStrip(Tail(s)) ELSE s

RECURSIVE RStrip(_)
RStrip(s) ==
    IF s # <<>> /\ s[Len(s)] = " " THEN RStrip(SubSeq(s, 1, Len(s) - 1)) ELSE s

Strip(s) == RStrip(LStrip(s))

RECURSIVE DigitsValue(_, _)
DigitsValue(s, acc) ==
    IF s = <<>> THEN acc ELSE DigitsValue(Tail(s), 10 * acc + DigitValue(Head(s)))

\* int(s): optional blanks, optional sign, one or more decimal digits;
\* anything else is a ValueError
ParseInt(s) ==
    LET t == Strip(s)
        signed == t # <<>> /\ Head(t) \in {"+", "-"}
        body == IF signed THEN Tail(t) ELSE t
        good == body # <<>> /\ \A i \in 1..Len(body) : IsDigit(body[i])
    IN  IF ~good THEN [ok |-> FALSE, val |-> 0]
        ELSE [ok |-> TRUE,
              val |-> IF signed /\ Head(t) = "-" THEN 0 - DigitsValue(body, 0)
                      ELSE DigitsValue(body, 0)]

\* str(n) for n >= 0, as in the f-string that writes "systolic/diastolic"
RECURSIVE IntToStr(_)
IntToStr(n) ==
    IF n < 10 THEN <<DigitChars[n + 1]>>
    ELSE Append(IntToStr(n \div 10), DigitChars[(n % 10) + 1])

FormatBP(systolic, diastolic) == IntToStr(systolic) \o <<"/">> \o IntToStr(diastolic)

-----------------------------------------------------------------------------
(* SimpleAnomalyDetector.check_vital_thresholds *)

Finding(vital, value, reason, threshold, severity) ==
    [vital |-> vital, value |-> value, reason |-> reason,
     threshold |-> threshold, severity |-> severity]

Returned(list) == [status |-> "returned", anomalies |-> list]
Raised == [status |-> "raised", anomalies |-> <<>>]

\* the four comparisons made inclusive
BandFindingsInclusive(vital, value, range) ==
    (IF value <= range.min
       THEN <<Finding(vital, value, "below normal", range.min, "medium")>>
     ELSE IF value >= range.max
       THEN <<Finding(vital, value, "above normal", range.max, "medium")>>
     ELSE <<>>)
    \o
    (IF value <= range.critical_min
       THEN <<Finding(vital, value, "critically low", range.critical_min, "high")>>
     ELSE IF value >= range.critical_max
       THEN <<Finding(vital, value, "critically high", range.critical_max, "high")>>
     ELSE <<>>)

\* the critical check made before the normal one
BandFindingsCriticalFirst(vital, value, range) ==
    (IF value < range.critical_min
       THEN <<Finding(vital, value, "critically low", range.critical_min, "high")>>
     ELSE IF value > range.critical_max
       THEN <<Finding(vital, value, "critically high", range.critical_max, "high")>>
     ELSE <<>>)
    \o
    (IF value < range.min
       THEN <<Finding(vital, value, "below normal", range.min, "medium")>>
     ELSE IF value > range.max
       THEN <<Finding(vital, value, "above normal", range.max, "medium")>>
     ELSE <<>>)

\* if v < min / elif v > max, then if v < critical_min / elif v > critical_max
BandFindings(vital, value, range) ==
    (IF value < range.min
       THEN <<Finding(vital, value, "below normal", range.min, "medium")>>
     ELSE IF value > range.max
       THEN <<Finding(vital, value, "above normal", range.max, "medium")>>
     ELSE <<>>)
    \o
    (IF value < range.critical_min
       THEN <<Finding(vital, value, "critically low", range.critical_min, "high")>>
     ELSE IF value > range.critical_max
       THEN <<Finding(vital, value, "critically high", range.critical_max, "high")>>
     ELSE <<>>)

\* the critically-low oxygen finding given the severity "critical"
OxygenFindingsCritical(value, range) ==
    (IF value < range.min
       THEN <<Finding("oxygen_saturation", value, "below normal", range.min, "medium")>>
     ELSE <<>>)
    \o
    (IF value < range.critical_min
       THEN <<Finding("oxygen_saturation", value, "critically low",
                      range.critical_min, "critical")>>
     ELSE <<>>)

\* oxygen saturation has the two lower checks only
OxygenFindings(value, range) ==
    (IF value < range.min
       THEN <<Finding("oxygen_saturation", value, "below normal", range.min, "medium")>>
     ELSE <<>>)
    \o
    (IF value < range.critical_min
       THEN <<Finding("oxygen_saturation", value, "critically low",
                      range.critical_min, "high")>>
     ELSE <<>>)

\* a vital missing from the record reported as a finding of its own
ScalarCheckMissing(pd, key) ==
    IF key \notin DOMAIN pd
      THEN Returned(<<Finding(key, 0, "missing", 0, "medium")>>)
    ELSE LET v == pd[key] IN
         IF ~Truthy(v) THEN Returned(<<>>)
         ELSE IF v.kind = "str" THEN Raised
         ELSE IF key = "oxygen_saturation"
              THEN Returned(OxygenFindings(v.num, VITAL_RANGES[key]))
         ELSE Returned(BandFindings(key, v.num, VITAL_RANGES[key]))

\* x = patient_data.get(key); if x: <band checks>
\* a non-empty str is truthy and `str < int` is a TypeError
ScalarCheck(pd, key) ==
    IF key \notin DOMAIN pd THEN Returned(<<>>)
    ELSE LET v == pd[key] IN
         IF ~Truthy(v) THEN Returned(<<>>)
         ELSE IF v.kind = "str" THEN Raised
         ELSE IF key = "oxygen_saturation"
              THEN Returned(OxygenFindings(v.num, VITAL_RANGES[key]))
         ELSE Returned(BandFindings(key, v.num, VITAL_RANGES[key]))

\* the derived check with >= in place of >
PulsePressureFindingsInclusive(systolic, diastolic) ==
    LET pulse_pressure == systolic - diastolic IN
    IF pulse_pressure >= PULSE_PRESSURE_LIMIT
      THEN <<Finding("pulse_pressure", pulse_pressure,
                     "abnormal systolic-diastolic difference",
                     PULSE_PRESSURE_LIMIT, "medium")>>
    ELSE <<>>

\* the derived check reporting severity "high"
PulsePressureFindingsHigh(systolic, diastolic) ==
    LET pulse_pressure == systolic - diastolic IN
    IF pulse_pressure > PULSE_PRESSURE_LIMIT
      THEN <<Finding("pulse_pressure", pulse_pressure,
                     "abnormal systolic-diastolic difference",
                     PULSE_PRESSURE_LIMIT, "high")>>
    ELSE <<>>

\* if pulse_pressure > 50: anomalies.append({"vital": "pulse_pressure", ...})
PulsePressureFindings(systolic, diastolic) ==
    LET pulse_pressure == systolic - diastolic IN
    IF pulse_pressure > PULSE_PRESSURE_LIMIT
      THEN <<Finding("pulse_pressure", pulse_pressure,
                     "abnormal systolic-diastolic difference",
                     PULSE_PRESSURE_LIMIT, "medium")>>
    ELSE <<>>

\* bp_parts = s.split("/"); systolic = int(bp_parts[0]); diastolic = int(bp_parts[1])
\* ValueError and IndexError both end in the except clause
ParseBloodPressure(s) ==
    LET bp_parts == Split(s, "/")
        first == ParseInt(bp_parts[1])
    IN  IF ~first.ok THEN [ok |-> FALSE, systolic |-> 0, diastolic |-> 0]
        ELSE IF Len(bp_parts) < 2 THEN [ok |-> FALSE, systolic |-> 0, diastolic |-> 0]
        ELSE LET second == ParseInt(bp_parts[2]) IN
             IF ~second.ok THEN [ok |-> FALSE, systolic |-> 0, diastolic |-> 0]
             ELSE [ok |-> TRUE, systolic |-> first.val, diastolic |-> second.val]

\* systolic parsed and checked before diastolic is parsed: a failure on the
\* second part leaves the systolic findings in the list
BloodPressureCheckEager(pd) ==
    IF "blood_pressure" \notin DOMAIN pd THEN Returned(<<>>)
    ELSE LET v == pd["blood_pressure"] IN
         IF v.kind # "str" THEN Raised
         ELSE LET bp_parts == Split(v.str, "/")
                  first == ParseInt(bp_parts[1])
              IN  IF ~first.ok THEN Returned(<<>>)
                  ELSE LET sys == BandFindings("blood_pressure_systolic", first.val,
                                               VITAL_RANGES["blood_pressure_systolic"])
                       IN  IF Len(bp_parts) < 2 \/ ~ParseInt(bp_parts[2]).ok
                             THEN Returned(sys)
                           ELSE Returned(
                                  sys
                                  \o BandFindings("blood_pressure_diastolic",
                                                  ParseInt(bp_parts[2]).val,
                                                  VITAL_RANGES["blood_pressure_diastolic"])
                                  \o PulsePressureFindings(first.val,
                                                           ParseInt(bp_parts[2]).val))

\* diastolic banded against the systolic ranges
BloodPressureCheckSharedRange(pd) ==
    IF "blood_pressure" \notin DOMAIN pd THEN Returned(<<>>)
    ELSE LET v == pd["blood_pressure"] IN
         IF v.kind # "str" THEN Raised
         ELSE LET bp == ParseBloodPressure(v.str) IN
              IF ~bp.ok THEN Returned(<<>>)
              ELSE Returned(
                     BandFindings("blood_pressure_systolic", bp.systolic,
                                  VITAL_RANGES["blood_pressure_systolic"])
                     \o BandFindings("blood_pressure_diastolic", bp.diastolic,
                                     VITAL_RANGES["blood_pressure_systolic"])
                     \o PulsePressureFindings(bp.systolic, bp.diastolic))

\* the try block: both parts are parsed before any finding is appended;
\* except (ValueError, IndexError): pass.  None.split / int.split is an
\* AttributeError, which the except clause does not catch.
BloodPressureCheck(pd) ==
    IF "blood_pressure" \notin DOMAIN pd THEN Returned(<<>>)
    ELSE LET v == pd["blood_pressure"] IN
         IF v.kind # "str" THEN Raised
         ELSE LET bp == ParseBloodPressure(v.str) IN
              IF ~bp.ok THEN Returned(<<>>)
              ELSE Returned(
                     BandFindings("blood_pressure_systolic", bp.systolic,
                                  VITAL_RANGES["blood_pressure_systolic"])
                     \o BandFindings("blood_pressure_diastolic", bp.diastolic,
                                     VITAL_RANGES["blood_pressure_diastolic"])
                     \o PulsePressureFindings(bp.systolic, bp.diastolic))

\* one check after the other on the same list; an exception in a check
\* propagates and nothing is returned
Then(a, b) ==
    IF a.status = "raised" \/ b.status = "raised" THEN Raised
    ELSE Returned(a.anomalies \o b.anomalies)

check_vital_thresholds(pd) ==
    Then(ScalarCheck(pd, "heart_rate"),
    Then(ScalarCheck(pd, "temperature"),
    Then(ScalarCheck(pd, "oxygen_saturation"),
    Then(ScalarCheck(pd, "respiratory_rate"),
         BloodPressureCheck(pd)))))

-----------------------------------------------------------------------------
(* config/settings.py: alert levels *)

ALERT_LEVELS == [LOW |-> 1, MEDIUM |-> 2, HIGH |-> 3, CRITICAL |-> 4]

\* a severity that is not a key of ALERT_LEVELS ranked above every level
LevelRankUnknownHighest(name) ==
    IF name \in DOMAIN ALERT_LEVELS THEN ALERT_LEVELS[name] ELSE 5

\* ALERT_LEVELS.get(name, 1)
LevelRank(name) == IF name \in DOMAIN ALERT_LEVELS THEN ALERT_LEVELS[name] ELSE 1

\* str.upper() on the severity strings that occur
Upper(s) ==
    CASE s = "low" -> "LOW"
      [] s = "medium" -> "MEDIUM"
      [] s = "high" -> "HIGH"
      [] s = "High" -> "HIGH"
      [] s = "critical" -> "CRITICAL"
      [] s = "severe" -> "SEVERE"
      [] OTHER -> s

-----------------------------------------------------------------------------
(* PatientAlertManager *)

\* anomaly.get("severity", "low").upper()
SeverityOf(anomaly) ==
    Upper(IF "severity" \in DOMAIN anomaly THEN anomaly["severity"] ELSE "low")

\* alert_level = "LOW"; for anomaly in anomalies: if rank(severity) > rank(alert_level): ...
RECURSIVE LevelLoop(_, _, _)
LevelLoop(anoms, i, alert_level) ==
    IF i > Len(anoms) THEN alert_level
    ELSE LET severity == SeverityOf(anoms[i]) IN
         LevelLoop(anoms, i + 1,
                   IF LevelRank(severity) > LevelRank(alert_level)
                     THEN severity ELSE alert_level)

\* every severity compared with "LOW" instead of the running level
RECURSIVE LevelLoopLast(_, _, _)
LevelLoopLast(anoms, i, alert_level) ==
    IF i > Len(anoms) THEN alert_level
    ELSE LET severity == SeverityOf(anoms[i]) IN
         LevelLoopLast(anoms, i + 1,
                       IF LevelRank(severity) > LevelRank("LOW")
                         THEN severity ELSE alert_level)

AlertLevelLast(anoms) == LevelLoopLast(anoms, 1, "LOW")

AlertLevel(anoms) == LevelLoop(anoms, 1, "LOW")

\* "above" in reason / "below" in reason, on the reason strings that occur
Comparison(reason) ==
    IF reason \in {"above normal"} THEN ">"
    ELSE IF reason \in {"below normal"} THEN "<"
    ELSE "!="

VitalLabels ==
    <<"heart_rate", "temperature", "blood_pressure", "oxygen_saturation",
      "respiratory_rate">>

\* a dict handed over as `vitals`, or None
Dict(items) == [kind |-> "dict", items |-> items]

\* _format_alert_message: anomaly["vital"], anomaly["value"], anomaly["reason"]
\* are KeyErrors when missing; `"heart_rate" in vitals` is a TypeError when
\* vitals is None.  The message is kept as its parts; a missing threshold
\* ("N/A" in the text) is written -1.
format_alert_message(patient_id, timestamp, vitals, anoms, level) ==
    IF \E i \in 1..Len(anoms) : ~({"vital", "value", "reason"} \subseteq DOMAIN anoms[i])
      THEN [raised |-> TRUE, message |-> <<>>]
    ELSE IF vitals.kind # "dict" THEN [raised |-> TRUE, message |-> <<>>]
    ELSE [raised |-> FALSE,
          message |->
            <<level, patient_id, timestamp,
              [i \in 1..Len(anoms) |->
                  <<i, anoms[i]["vital"], anoms[i]["reason"], anoms[i]["value"],
                    Comparison(anoms[i]["reason"]),
                    IF "threshold" \in DOMAIN anoms[i]
                      THEN anoms[i]["threshold"] ELSE -1>>],
              SelectSeq(VitalLabels, LAMBDA k : k \in DOMAIN vitals.items)>>]

\* logger.info / warning / error / critical, chosen by the level
LogMethod(level) ==
    CASE level = "LOW" -> "info"
      [] level = "MEDIUM" -> "warning"
      [] level = "HIGH" -> "error"
      [] level = "CRITICAL" -> "critical"
      [] OTHER -> "none"

\* the dict stored in the history
Alert(timestamp, level, anoms, vitals) ==
    [timestamp |-> timestamp, level |-> level, anomalies |-> anoms, vitals |-> vitals]

\* the list stored under patient_id, <<>> when the key is missing
History(patient_id) ==
    IF patient_id \in DOMAIN alert_history THEN lists[alert_history[patient_id]] ELSE <<>>

\* self.alert_history[patient_id] = []  (a new list object)
WithNewList(h, patient_id, id) ==
    [k \in DOMAIN h \cup {patient_id} |-> IF k = patient_id THEN id ELSE h[k]]

\* lst[start:] for a Python list
PySliceFrom(lst, start) ==
    LET n == Len(lst)
        from == IF start < 0 THEN (IF n + start < 0 THEN 0 ELSE n + start)
                ELSE (IF start > n THEN n ELSE start)
    IN  SubSeq(lst, from + 1, n)

\* the alert stored before the message is formatted: a formatting error
\* leaves the new alert in the history
record_alert_store_first(h, l, s, patient_id, timestamp, vitals, anoms, handler_ok) ==
    LET alert_level == AlertLevel(anoms)
        fresh == patient_id \notin DOMAIN h
        h1 == IF fresh THEN WithNewList(h, patient_id, Len(l) + 1) ELSE h
        l1 == IF fresh THEN Append(l, <<>>) ELSE l
        l2 == [l1 EXCEPT ![h1[patient_id]] =
                  Append(@, Alert(timestamp, alert_level, anoms, vitals))]
        alert_msg == format_alert_message(patient_id, timestamp, vitals, anoms,
                                          alert_level)
    IN  IF alert_msg.raised
          THEN [alert_history |-> h1, lists |-> l2, sink |-> s, status |-> "raised"]
        ELSE [alert_history |-> h1, lists |-> l2,
              sink |-> IF handler_ok /\ LogMethod(alert_level) # "none"
                         THEN Append(s, <<LogMethod(alert_level), alert_msg.message>>)
                       ELSE s,
              status |-> "returned"]

\* process_anomalies past its guard, on the state (h, l, s) = (alert_history,
\* list objects, sink): the state it leaves and whether it returned or raised
record_alert(h, l, s, patient_id, timestamp, vitals, anoms, handler_ok) ==
    LET alert_level == AlertLevel(anoms)
        alert_msg == format_alert_message(patient_id, timestamp, vitals, anoms,
                                          alert_level)
    IN  IF alert_msg.raised
          THEN [alert_history |-> h, lists |-> l, sink |-> s, status |-> "raised"]
        ELSE
          LET \* a handler that fails reports to stderr and the call goes on
              s1 == IF handler_ok /\ LogMethod(alert_level) # "none"
                      THEN Append(s, <<LogMethod(alert_level), alert_msg.message>>)
                    ELSE s
              fresh == patient_id \notin DOMAIN h
              h1 == IF fresh THEN WithNewList(h, patient_id, Len(l) + 1) ELSE h
              l1 == IF fresh THEN Append(l, <<>>) ELSE l
              l2 == [l1 EXCEPT ![h1[patient_id]] =
                        Append(@, Alert(timestamp, alert_level, anoms, vitals))]
          IN  [alert_history |-> h1, lists |-> l2, sink |-> s1, status |-> "returned"]

\* the guard dropped: an empty list is recorded like any other
process_anomalies_unguarded(h, l, s, patient_id, timestamp, vitals, anoms, handler_ok) ==
    record_alert(h, l, s, patient_id, timestamp, vitals, anoms, handler_ok)

\* if not anomalies: return
process_anomalies(h, l, s, patient_id, timestamp, vitals, anoms, handler_ok) ==
    IF anoms = <<>>
      THEN [alert_history |-> h, lists |-> l, sink |-> s, status |-> "returned"]
    ELSE record_alert(h, l, s, patient_id, timestamp, vitals, anoms, handler_ok)

\* the first `limit` alerts instead of the last
get_patient_alerts_oldest(h, l, patient_id, limit) ==
    IF patient_id \notin DOMAIN h THEN <<>>
    ELSE SubSeq(l[h[patient_id]], 1,
                IF limit < Len(l[h[patient_id]]) THEN limit ELSE Len(l[h[patient_id]]))

\* get_patient_alerts(patient_id, limit): alert_history[patient_id][-limit:]
get_patient_alerts(h, l, patient_id, limit) ==
    IF patient_id \notin DOMAIN h THEN <<>>
    ELSE PySliceFrom(l[h[patient_id]], 0 - limit)

-----------------------------------------------------------------------------
(* Bounds and inputs *)

MaxCalls == 3       \* process_anomalies calls in one run
MaxLimit == 3       \* largest limit asked of get_patient_alerts
NumThreads == 2     \* threads calling process_anomalies at once

Patients == {"p1", "p2"}
Threads == 1..NumThreads

HrAbove == Finding("heart_rate", 135, "above normal", 100, "medium")
TempCritical == Finding("temperature", 395, "critically high", 385, "high")
RespAbove == Finding("respiratory_rate", 21, "above normal", 20, "medium")
\* the finding main.detect_anomalies builds for the statistical detector,
\* with and without its severity
Outlier(sev) ==
    [vital |-> "statistical_anomaly", value |-> 0, reason |-> "statistical outlier",
     severity |-> sev]
OutlierNoSeverity ==
    [vital |-> "statistical_anomaly", value |-> 0, reason |-> "statistical outlier"]
\* a finding without "vital", "value" and "reason"
Bare == [severity |-> "high"]

SomeVitals == Dict([heart_rate |-> Num(135), temperature |-> Num(395)])

CallInput(timestamp, vitals, anoms, handler_ok) ==
    [timestamp |-> timestamp, vitals |-> vitals, anomalies |-> anoms,
     handler_ok |-> handler_ok]

CallInputs ==
    {CallInput(1, SomeVitals, <<>>, TRUE),
     CallInput(1, SomeVitals, <<HrAbove>>, TRUE),
     CallInput(2, SomeVitals, <<HrAbove, TempCritical, RespAbove>>, TRUE),
     CallInput(2, SomeVitals, <<Bare>>, TRUE),
     CallInput(1, SomeVitals, <<OutlierNoSeverity, Outlier("severe")>>, FALSE),
     CallInput(2, SomeVitals, <<Outlier("critical"), Outlier("low"), Outlier("High")>>,
               TRUE)}

-----------------------------------------------------------------------------
(* The alert manager, one call at a time *)

CallRecord(patient_id, in, status) ==
    [patient_id |-> patient_id, timestamp |-> in.timestamp, vitals |-> in.vitals,
     anomalies |-> in.anomalies, handler_ok |-> in.handler_ok, status |-> status]

NoReturn == [op |-> "none", patient_id |-> "", limit |-> 0, status |-> "returned",
             value |-> <<>>]

InitManager ==
    /\ alert_history = <<>>
    /\ lists = <<>>
    /\ sink = <<>>
    /\ calls = <<>>
    /\ ret = NoReturn

InitThreads ==
    /\ pc = [t \in Threads |-> "idle"]
    /\ args = [t \in Threads |->
                  CallRecord("", CallInput(0, SomeVitals, <<>>, TRUE), "returned")]
    /\ seen = [t \in Threads |-> FALSE]
    /\ ref = [t \in Threads |-> 0]

InitEvalIdle ==
    /\ patient_data = <<>>
    /\ anomalies = <<>>
    /\ eval_status = "ready"

\* no export under way
NoExport == [pc |-> "idle", used |-> 0, pos |-> 0, doc |-> <<>>, count |-> 0,
             status |-> "none"]

InitExport ==
    /\ export = NoExport
    /\ snapshots = {}

\* the detector of the other specifications: built on the configured table
InitDetector ==
    /\ vital_ranges = VITAL_RANGES
    /\ detector = "constructed"

\* no object shared with a caller yet
NoObjects == [lists |-> <<>>, dicts |-> <<>>, alerts |-> <<>>]

InitObjects == objects = NoObjects

\* no evaluation under way
InitEvals == evals = <<>>

\* no statistical detector in use
InitStat == stat = <<>>

Init ==
    /\ InitManager
    /\ InitThreads
    /\ InitEvalIdle
    /\ InitExport
    /\ InitDetector
    /\ InitObjects
    /\ InitEvals
    /\ InitStat

ProcessAnomalies(patient_id, in) ==
    LET out == process_anomalies(alert_history, lists, sink, patient_id, in.timestamp,
                                 in.vitals, in.anomalies, in.handler_ok)
    IN  /\ Len(calls) < MaxCalls
        /\ alert_history' = out.alert_history
        /\ lists' = out.lists
        /\ sink' = out.sink
        /\ calls' = Append(calls, CallRecord(patient_id, in, out.status))
        /\ ret' = [op |-> "process_anomalies", patient_id |-> patient_id, limit |-> 0,
                   status |-> out.status, value |-> <<>>]
        /\ UNCHANGED <<evalVars, thrVars, expVars, detVars, auxVars>>

\* the lookup written with setdefault: asking for an unknown patient stores
\* an empty list under its key
GetPatientAlertsCreating(patient_id, limit) ==
    LET fresh == patient_id \notin DOMAIN alert_history IN
    /\ ret' = [op |-> "get_patient_alerts", patient_id |-> patient_id, limit |-> limit,
               status |-> "returned",
               value |-> get_patient_alerts(alert_history, lists, patient_id, limit)]
    /\ alert_history' = IF fresh
                          THEN WithNewList(alert_history, patient_id, Len(lists) + 1)
                        ELSE alert_history
    /\ lists' = IF fresh THEN Append(lists, <<>>) ELSE lists
    /\ UNCHANGED <<sink, calls, evalVars, thrVars, expVars, detVars, auxVars>>

GetPatientAlerts(patient_id, limit) ==
    /\ ret' = [op |-> "get_patient_alerts", patient_id |-> patient_id, limit |-> limit,
               status |-> "returned",
               value |-> get_patient_alerts(alert_history, lists, patient_id, limit)]
    /\ UNCHANGED <<alert_history, lists, sink, calls, evalVars, thrVars, expVars, detVars, auxVars>>

Next ==
    \/ \E p \in Patients, in \in CallInputs : ProcessAnomalies(p, in)
    \/ \E p \in Patients, limit \in 0..MaxLimit : GetPatientAlerts(p, limit)

Spec == Init /\ [][Next]_vars

-----------------------------------------------------------------------------
(* Properties of the alert manager, one call at a time *)

Min(a, b) == IF a < b THEN a ELSE b

\* the calls made for patient p with a non-empty findings list, in call order
RecordCalls(p) == SelectSeq(calls, LAMBDA c : c.patient_id = p /\ c.anomalies # <<>>)

\* the alert a call is to leave in the history
AlertOfCall(c) == Alert(c.timestamp, AlertLevel(c.anomalies), c.anomalies, c.vitals)

\* C1: after any sequence of process_anomalies calls, each patient's history
\* is exactly the alerts of that patient's calls with non-empty findings, one
\* entry per such call, in call order.
C1_HistoryIsCallSequence ==
    \A p \in Patients :
        LET rc == RecordCalls(p) IN
        /\ Len(History(p)) = Len(rc)
        /\ \A i \in 1..Len(rc) : History(p)[i] = AlertOfCall(rc[i])

\* C3: for limit >= 1, get_patient_alerts returns the last min(limit, n)
\* alerts of the patient, oldest of the slice first; with three alerts
\* recorded and limit 2 these are the 2nd and the 3rd.
C3_RecentIsTail ==
    (ret.op = "get_patient_alerts" /\ ret.limit >= 1) =>
        LET hist == History(ret.patient_id)
            n == Len(hist)
            k == Min(ret.limit, n)
        IN  /\ Len(ret.value) = k
            /\ \A i \in 1..k : ret.value[i] = hist[n - k + i]
            /\ (n = 3 /\ ret.limit = 2) => ret.value = <<hist[2], hist[3]>>

C3_Witness ==
    /\ ret.op = "get_patient_alerts"
    /\ ret.limit = 2
    /\ Len(History(ret.patient_id)) = 3
    /\ History(ret.patient_id)[1] # History(ret.patient_id)[3]

\* C4: process_anomalies with an empty findings list changes neither the
\* history nor the sink, and every stored alert has a non-empty findings list.
C4_EmptyIsNoOp ==
    /\ [][(calls' # calls /\ calls'[Len(calls')].anomalies = <<>>) =>
             (/\ alert_history' = alert_history
              /\ lists' = lists
              /\ sink' = sink
              /\ ret'.status = "returned")]_vars
    /\ [](\A p \in Patients : \A i \in 1..Len(History(p)) :
             History(p)[i].anomalies # <<>>)

C4_Witness ==
    /\ ret.op = "process_anomalies"
    /\ Len(calls) >= 2
    /\ calls[Len(calls)].anomalies = <<>>
    /\ History(calls[Len(calls)].patient_id) # <<>>

\* C5: for every call with non-empty findings the alert is in the patient's
\* history, whether or not formatting and logging succeeded.
C5_AlertStoredDespiteSinkFailure ==
    \A i \in 1..Len(calls) :
        calls[i].anomalies # <<>> =>
            \E j \in 1..Len(History(calls[i].patient_id)) :
                History(calls[i].patient_id)[j] = AlertOfCall(calls[i])

\* the four levels in the order LOW < MEDIUM < HIGH < CRITICAL
LevelOrder == <<"LOW", "MEDIUM", "HIGH", "CRITICAL">>

OrderIndex(level) == CHOOSE i \in 1..Len(LevelOrder) : LevelOrder[i] = level

\* the finding carries one of the four levels as its severity, in any case
HasKnownSeverity(f) ==
    "severity" \in DOMAIN f /\ \E i \in 1..Len(LevelOrder) : Upper(f["severity"]) = LevelOrder[i]

Orderings(n) == {f \in [1..n -> 1..n] : \A i, j \in 1..n : f[i] = f[j] => i = j}

Permuted(seq, f) == [i \in 1..Len(seq) |-> seq[f[i]]]

\* C6: the level of a recorded alert is the maximum of its findings'
\* severities under LOW < MEDIUM < HIGH < CRITICAL, and every permutation of
\* the findings gives the same level; [medium, high, medium] gives HIGH.
C6_LevelIsMaxSeverity ==
    \A p \in Patients : \A i \in 1..Len(History(p)) :
        LET a == History(p)[i]
            fs == a.anomalies
        IN  /\ (\A k \in 1..Len(fs) : HasKnownSeverity(fs[k])) =>
                  /\ \E k \in 1..Len(fs) : Upper(fs[k]["severity"]) = a.level
                  /\ \A k \in 1..Len(fs) :
                        OrderIndex(Upper(fs[k]["severity"])) <= OrderIndex(a.level)
            /\ \A f \in Orderings(Len(fs)) : AlertLevel(Permuted(fs, f)) = a.level
            /\ (fs = <<HrAbove, TempCritical, RespAbove>>) => a.level = "HIGH"

C6_Witness ==
    \E p \in Patients : \E i, j \in 1..Len(History(p)) :
        /\ History(p)[i].anomalies = <<HrAbove, TempCritical, RespAbove>>
        /\ History(p)[i].level = "HIGH"
        /\ History(p)[j].level = "CRITICAL"

AlertFields == {"timestamp", "level", "anomalies", "vitals"}

\* C18: a process_anomalies call that raises leaves alert_history exactly
\* as it was; a call that returns with a non-empty list of findings has
\* added exactly one alert, with its four fields, at the end of that
\* patient's history and touched no other history; every alert in the
\* history is complete.
C18_RecordIsAllOrNothing ==
    /\ [][Len(calls') = Len(calls) + 1 =>
            \A p \in Patients :
                calls'[Len(calls')].patient_id = p =>
                    LET c == calls'[Len(calls')]
                        before == History(p)
                    IN  /\ c.status = "raised" =>
                              alert_history' = alert_history /\ lists' = lists
                        /\ (c.status = "returned" /\ c.anomalies # <<>>) =>
                              /\ Len(History(p)') = Len(before) + 1
                              /\ SubSeq(History(p)', 1, Len(before)) = before
                              /\ LET new == History(p)'[Len(before) + 1] IN
                                 /\ DOMAIN new = AlertFields
                                 /\ new.timestamp = c.timestamp
                                 /\ new.anomalies = c.anomalies
                                 /\ new.vitals = c.vitals
                              /\ \A q \in Patients \ {p} : History(q)' = History(q)]_vars
    /\ [](\A p \in Patients : \A i \in 1..Len(History(p)) :
              DOMAIN History(p)[i] = AlertFields)

\* a call has just raised on a history that already holds an alert
C18_Witness ==
    /\ ret.op = "process_anomalies"
    /\ ret.status = "raised"
    /\ Len(calls) = 2
    /\ calls[2].status = "raised"
    /\ calls[2].patient_id = "p1"
    /\ Len(History("p1")) = 1

\* C22: get_patient_alerts for a patient that has no entry in alert_history
\* returns the empty list without raising and leaves alert_history as it
\* was: no entry is created for that patient.
C22_UnknownPatientGivesEmpty ==
    [][(ret'.op = "get_patient_alerts" /\ UNCHANGED calls) =>
          \A p \in Patients :
              (ret'.patient_id = p /\ p \notin DOMAIN alert_history) =>
                  /\ ret'.status = "returned"
                  /\ ret'.value = <<>>
                  /\ alert_history' = alert_history
                  /\ lists' = lists
                  /\ p \notin DOMAIN alert_history']_vars

\* an unknown patient was asked for while another patient has alerts
C22_Witness ==
    /\ ret.op = "get_patient_alerts"
    /\ ret.patient_id = "p2"
    /\ ret.limit > 0
    /\ ret.value = <<>>
    /\ "p2" \notin DOMAIN alert_history
    /\ Len(History("p1")) > 0

\* C26: get_patient_alerts with limit 0 returns the empty list for every
\* patient, also for one whose history holds alerts.
C26_LimitZeroGivesEmpty ==
    (ret.op = "get_patient_alerts" /\ ret.limit = 0) => ret.value = <<>>

-----------------------------------------------------------------------------
(* The evaluator on one record *)

ScalarKeys == {"heart_rate", "temperature", "oxygen_saturation", "respiratory_rate"}

Absent == [present |-> FALSE, value |-> Null]
Present(v) == [present |-> TRUE, value |-> v]

\* the record with the chosen fields, a missing one left out of the dict
MkRecord(hr, temp, oxy, resp, bp) ==
    LET c == [heart_rate |-> hr, temperature |-> temp, oxygen_saturation |-> oxy,
              respiratory_rate |-> resp, blood_pressure |-> bp]
    IN  [k \in {k \in DOMAIN c : c[k].present} |-> c[k].value]

\* zero, each bound of the vital, and one step outside the critical band
TestValues(key) ==
    LET r == VITAL_RANGES[key] IN
    {Absent} \cup {Present(Num(n)) :
                    n \in {0, r.critical_min - 1, r.critical_min, r.min, r.max,
                           r.critical_max, r.critical_max + 1}}

\* strings int() / split("/") reject
UnparsableBP ==
    {<<"n", "o", "t", "-", "a", "-", "n", "u", "m", "b", "e", "r">>,
     <<"2", "0", "0", "/", "x">>,
     <<"2", "0", "0">>,
     <<"/", "8", "0">>,
     <<"2", "0", "0", "/">>,
     <<"a", "b", "c", "/", "8", "0">>,
     <<"2", "0", "0", ".", "5", "/", "8", "0">>,
     <<"2", "0", "0", "-", "1", "3", "0">>,
     <<>>}

\* strings the parser accepts although they are not plain "S/D"
OddBP ==
    {<<"2", "0", "0", "/", "1", "3", "0", "/", "9", "0">>,
     <<" ", "2", "0", "0", " ", "/", " ", "8", "0", " ">>,
     <<"-", "5", "/", "8", "0">>}

SystolicValues == {0, 79, 80, 90, 120, 121, 180, 181, 200}
DiastolicValues == {0, 49, 50, 60, 80, 81, 110, 130}

GridBP ==
    {Absent, Present(Str(FormatBP(120, 80))), Present(Str(FormatBP(200, 130))),
     Present(Str(<<"n", "o", "t", "-", "a", "-", "n", "u", "m", "b", "e", "r">>)),
     Present(Str(<<"2", "0", "0", "/", "x">>))}

AllBP ==
    {Present(Str(FormatBP(sy, di))) : sy \in SystolicValues, di \in DiastolicValues}
    \cup {Present(Str(s)) : s \in UnparsableBP \cup OddBP}

Records ==
    \* every combination of the scalar test values, with a few blood pressures
    {MkRecord(hr, temp, oxy, resp, bp) :
        hr \in TestValues("heart_rate"), temp \in TestValues("temperature"),
        oxy \in TestValues("oxygen_saturation"), resp \in TestValues("respiratory_rate"),
        bp \in GridBP}
    \* every blood pressure, alone and beside scalar findings
    \cup {MkRecord(hr, Absent, oxy, Absent, bp) :
            hr \in {Absent, Present(Num(131))}, oxy \in {Absent, Present(Num(89))},
            bp \in AllBP}
    \* fields that are not of the expected type
    \cup {MkRecord(hr, Absent, Present(Num(89)), Absent, bp) :
            hr \in {Present(Null), Present(Str(<<>>)), Present(Str(<<"7", "5">>)),
                    Present(Num(131))},
            bp \in {Absent, Present(Null), Present(Num(120)),
                    Present(Str(<<"2", "0", "0", "/", "x">>))}}

InitEval ==
    /\ patient_data \in Records
    /\ anomalies = <<>>
    /\ eval_status = "ready"
    /\ InitManager
    /\ InitThreads
    /\ InitExport
    /\ InitDetector
    /\ InitObjects
    /\ InitEvals
    /\ InitStat

\* anomalies = detector.check_vital_thresholds(record)
Detect ==
    /\ eval_status = "ready"
    /\ LET out == check_vital_thresholds(patient_data) IN
        /\ anomalies' = out.anomalies
        /\ eval_status' = out.status
    /\ UNCHANGED <<patient_data, mgrVars, thrVars, expVars, detVars, auxVars>>

NextEval == Detect

SpecEval == InitEval /\ [][NextEval]_vars

-----------------------------------------------------------------------------
(* Properties of the evaluator *)

BoundNames == {"min", "max", "critical_min", "critical_max"}

ReasonOfBound(bound) ==
    CASE bound = "min" -> "below normal"
      [] bound = "max" -> "above normal"
      [] bound = "critical_min" -> "critically low"
      [] bound = "critical_max" -> "critically high"

BPVitals == {"blood_pressure_systolic", "blood_pressure_diastolic", "pulse_pressure"}

FindingsOf(vital) == SelectSeq(anomalies, LAMBDA f : f.vital = vital)

\* the record carries a number under `key`
HasNumber(key) == key \in DOMAIN patient_data /\ patient_data[key].kind = "num"

\* the record's blood pressure is the text "sy/di"
BloodPressureIs(sy, di) ==
    /\ "blood_pressure" \in DOMAIN patient_data
    /\ patient_data["blood_pressure"] = Str(FormatBP(sy, di))

\* C7: every band comparison is strict: a value equal to min, max,
\* critical_min or critical_max gives no finding for that bound, for the
\* scalar vitals and for systolic and diastolic; "120/80" gives no
\* blood-pressure finding at all.
C7_BoundaryValuesGiveNoFinding ==
    eval_status = "returned" =>
        /\ \A key \in ScalarKeys, bound \in BoundNames :
              (HasNumber(key) /\ patient_data[key].num = VITAL_RANGES[key][bound]) =>
                  \A i \in 1..Len(anomalies) :
                      ~(anomalies[i].vital = key
                        /\ anomalies[i].reason = ReasonOfBound(bound))
        /\ \A bound \in BoundNames, sy \in SystolicValues, di \in DiastolicValues :
              /\ (BloodPressureIs(sy, di)
                    /\ sy = VITAL_RANGES["blood_pressure_systolic"][bound]) =>
                     \A i \in 1..Len(anomalies) :
                         ~(anomalies[i].vital = "blood_pressure_systolic"
                           /\ anomalies[i].reason = ReasonOfBound(bound))
              /\ (BloodPressureIs(sy, di)
                    /\ di = VITAL_RANGES["blood_pressure_diastolic"][bound]) =>
                     \A i \in 1..Len(anomalies) :
                         ~(anomalies[i].vital = "blood_pressure_diastolic"
                           /\ anomalies[i].reason = ReasonOfBound(bound))
        /\ BloodPressureIs(120, 80) =>
              \A i \in 1..Len(anomalies) : anomalies[i].vital \notin BPVitals

C7_Witness ==
    /\ eval_status = "returned"
    /\ HasNumber("heart_rate") /\ patient_data["heart_rate"].num = 40
    /\ HasNumber("temperature") /\ patient_data["temperature"].num = 375
    /\ BloodPressureIs(120, 80)
    /\ anomalies = <<Finding("heart_rate", 40, "below normal", 60, "medium")>>

\* criticalMin < min <= max < criticalMax
ProperBands(r) == r.critical_min < r.min /\ r.min <= r.max /\ r.max < r.critical_max

\* what the claim expects of a value outside the normal band
ExpectedOutOfBand(vital, v, r) ==
    IF v < r.critical_min
      THEN <<Finding(vital, v, "below normal", r.min, "medium"),
             Finding(vital, v, "critically low", r.critical_min, "high")>>
    ELSE IF v < r.min THEN <<Finding(vital, v, "below normal", r.min, "medium")>>
    ELSE IF v > r.critical_max
      THEN <<Finding(vital, v, "above normal", r.max, "medium"),
             Finding(vital, v, "critically high", r.critical_max, "high")>>
    ELSE <<Finding(vital, v, "above normal", r.max, "medium")>>

IsCriticalFinding(f) == f.reason \in {"critically low", "critically high"}
IsNormalFinding(f) == f.reason \in {"below normal", "above normal"}

\* C8: for a vital with criticalMin < min <= max < criticalMax, a value below
\* min (above max) gives exactly the normal-band finding, and one below
\* criticalMin (above criticalMax) gives the normal-band finding followed by
\* the critical one; a critical finding is always preceded by the normal
\* finding of the same vital.
C8_OutOfBandFindings ==
    eval_status = "returned" =>
        /\ \A key \in ScalarKeys :
              (/\ ProperBands(VITAL_RANGES[key])
               /\ HasNumber(key)
               /\ \/ patient_data[key].num < VITAL_RANGES[key].min
                  \/ patient_data[key].num > VITAL_RANGES[key].max) =>
                  FindingsOf(key) =
                      ExpectedOutOfBand(key, patient_data[key].num, VITAL_RANGES[key])
        /\ \A sy \in SystolicValues, di \in DiastolicValues :
              BloodPressureIs(sy, di) =>
                  /\ LET r == VITAL_RANGES["blood_pressure_systolic"] IN
                     (ProperBands(r) /\ (sy < r.min \/ sy > r.max)) =>
                         FindingsOf("blood_pressure_systolic") =
                             ExpectedOutOfBand("blood_pressure_systolic", sy, r)
                  /\ LET r == VITAL_RANGES["blood_pressure_diastolic"] IN
                     (ProperBands(r) /\ (di < r.min \/ di > r.max)) =>
                         FindingsOf("blood_pressure_diastolic") =
                             ExpectedOutOfBand("blood_pressure_diastolic", di, r)
        /\ \A i \in 1..Len(anomalies) :
              IsCriticalFinding(anomalies[i]) =>
                  /\ i > 1
                  /\ anomalies[i - 1].vital = anomalies[i].vital
                  /\ IsNormalFinding(anomalies[i - 1])

VitalOrder ==
    <<"heart_rate", "temperature", "oxygen_saturation", "respiratory_rate",
      "blood_pressure_systolic", "blood_pressure_diastolic", "pulse_pressure">>

VitalIndex(vital) == CHOOSE i \in 1..Len(VitalOrder) : VitalOrder[i] = vital

\* C9: the findings come in the order heart rate, temperature, oxygen
\* saturation, respiratory rate, systolic, diastolic, pulse pressure, and
\* within one vital the normal-band finding precedes the critical one.
C9_FixedFindingOrder ==
    eval_status = "returned" =>
        \A i, j \in 1..Len(anomalies) :
            i < j =>
                /\ \E k \in 1..Len(VitalOrder) : VitalOrder[k] = anomalies[i].vital
                /\ VitalIndex(anomalies[i].vital) <= VitalIndex(anomalies[j].vital)
                /\ anomalies[i].vital = anomalies[j].vital =>
                       IsNormalFinding(anomalies[i]) /\ IsCriticalFinding(anomalies[j])

C9_Witness ==
    /\ eval_status = "returned"
    /\ BloodPressureIs(200, 130)
    /\ Len(anomalies) = 13
    /\ [i \in 1..13 |-> anomalies[i].vital] =
          <<"heart_rate", "heart_rate", "temperature", "temperature",
            "oxygen_saturation", "oxygen_saturation", "respiratory_rate",
            "respiratory_rate", "blood_pressure_systolic", "blood_pressure_systolic",
            "blood_pressure_diastolic", "blood_pressure_diastolic", "pulse_pressure">>

\* the record without its blood_pressure field
WithoutBloodPressure(pd) == [k \in DOMAIN pd \ {"blood_pressure"} |-> pd[k]]

HasUnparsableBP ==
    /\ "blood_pressure" \in DOMAIN patient_data
    /\ patient_data["blood_pressure"].kind = "str"
    /\ patient_data["blood_pressure"].str \in UnparsableBP

\* C10: a blood-pressure string that does not parse gives no systolic,
\* diastolic or pulse-pressure finding and no exception: the outcome is the
\* one of the same record without the blood_pressure field.
C10_UnparsableBPIsSkipped ==
    (eval_status # "ready" /\ HasUnparsableBP) =>
        LET rest == check_vital_thresholds(WithoutBloodPressure(patient_data)) IN
        /\ eval_status = rest.status
        /\ anomalies = rest.anomalies
        /\ \A i \in 1..Len(anomalies) : anomalies[i].vital \notin BPVitals

C10_Witness ==
    /\ eval_status = "returned"
    /\ HasUnparsableBP
    /\ patient_data["blood_pressure"].str = <<"2", "0", "0", "/", "x">>
    /\ Len(anomalies) = 4

\* the fields of the record whose value has the type the evaluator expects:
\* a number for a scalar vital, a string for blood_pressure
WellTyped(pd) ==
    [k \in {k \in DOMAIN pd :
               IF k = "blood_pressure" THEN pd[k].kind = "str" ELSE pd[k].kind = "num"}
       |-> pd[k]]

\* C11: the evaluation of any record returns a list and never raises; a
\* blood_pressure that is null or not a string, or a scalar vital that is
\* not a number, only has its own check skipped: the findings are those of
\* the record without the ill-typed fields.
C11_EvaluateIsTotal ==
    eval_status # "ready" =>
        /\ eval_status = "returned"
        /\ anomalies = check_vital_thresholds(WellTyped(patient_data)).anomalies

\* C12: a scalar vital present with the value 0 is checked like any other
\* number: with the configured ranges it gives the below-normal finding and
\* the critically-low finding of that vital.
C12_ZeroIsEvaluated ==
    eval_status = "returned" =>
        \A key \in ScalarKeys :
            (HasNumber(key) /\ patient_data[key].num = 0) =>
                FindingsOf(key) =
                    <<Finding(key, 0, "below normal", VITAL_RANGES[key].min, "medium"),
                      Finding(key, 0, "critically low", VITAL_RANGES[key].critical_min,
                              "high")>>

\* C13: each of the four scalar vitals, oxygen saturation included, has the
\* two upper checks: a value above max gives an above-normal finding
\* (medium, threshold max) and a value above critical_max gives a
\* critically-high finding (high).
C13_UpperChecksForEveryScalar ==
    eval_status = "returned" =>
        \A key \in ScalarKeys :
            HasNumber(key) =>
                LET v == patient_data[key].num
                    r == VITAL_RANGES[key]
                IN  /\ v > r.max =>
                          \E i \in 1..Len(anomalies) :
                              anomalies[i] = Finding(key, v, "above normal", r.max, "medium")
                    /\ v > r.critical_max =>
                          \E i \in 1..Len(anomalies) :
                              /\ anomalies[i].vital = key
                              /\ anomalies[i].reason = "critically high"
                              /\ anomalies[i].severity = "high"

\* the findings a parsed blood pressure is expected to give, each one
\* decided by its own comparison
ExpectedBloodPressure(sy, di) ==
    LET rs == VITAL_RANGES["blood_pressure_systolic"]
        rd == VITAL_RANGES["blood_pressure_diastolic"]
        One(cond, f) == IF cond THEN <<f>> ELSE <<>>
    IN  One(sy < rs.min,
            Finding("blood_pressure_systolic", sy, "below normal", rs.min, "medium"))
        \o One(sy > rs.max,
               Finding("blood_pressure_systolic", sy, "above normal", rs.max, "medium"))
        \o One(sy < rs.critical_min,
               Finding("blood_pressure_systolic", sy, "critically low",
                       rs.critical_min, "high"))
        \o One(sy > rs.critical_max,
               Finding("blood_pressure_systolic", sy, "critically high",
                       rs.critical_max, "high"))
        \o One(di < rd.min,
               Finding("blood_pressure_diastolic", di, "below normal", rd.min, "medium"))
        \o One(di > rd.max,
               Finding("blood_pressure_diastolic", di, "above normal", rd.max, "medium"))
        \o One(di < rd.critical_min,
               Finding("blood_pressure_diastolic", di, "critically low",
                       rd.critical_min, "high"))
        \o One(di > rd.critical_max,
               Finding("blood_pressure_diastolic", di, "critically high",
                       rd.critical_max, "high"))
        \o One(sy - di > 50,
               Finding("pulse_pressure", sy - di,
                       "abnormal systolic-diastolic difference", 50, "medium"))

BloodPressureFindings == SelectSeq(anomalies, LAMBDA f : f.vital \in BPVitals)

\* C14: for a blood pressure "sy/di" that parses, the blood-pressure findings
\* are, in this order, systolic normal band, systolic critical band,
\* diastolic normal band, diastolic critical band, pulse pressure, each
\* against its own range and each present exactly when its comparison
\* holds; "200/130" gives exactly the five findings above normal and
\* critically high for systolic and for diastolic, and the pulse pressure.
C14_ParsedBloodPressureFindings ==
    eval_status = "returned" =>
        /\ \A sy \in SystolicValues, di \in DiastolicValues :
              BloodPressureIs(sy, di) =>
                  BloodPressureFindings = ExpectedBloodPressure(sy, di)
        /\ BloodPressureIs(200, 130) =>
              BloodPressureFindings =
                  <<Finding("blood_pressure_systolic", 200, "above normal", 120, "medium"),
                    Finding("blood_pressure_systolic", 200, "critically high", 180, "high"),
                    Finding("blood_pressure_diastolic", 130, "above normal", 80, "medium"),
                    Finding("blood_pressure_diastolic", 130, "critically high", 110,
                            "high"),
                    Finding("pulse_pressure", 70,
                            "abnormal systolic-diastolic difference", 50, "medium")>>

C14_Witness ==
    /\ eval_status = "returned"
    /\ BloodPressureIs(200, 130)
    /\ Len(BloodPressureFindings) = 5
    /\ Len(anomalies) = 5

\* C15: a parsed blood pressure gives exactly one pulse_pressure finding
\* (value systolic - diastolic, threshold 50, severity medium) when
\* systolic - diastolic > 50 and none when the difference is 50 or less,
\* whether or not systolic and diastolic are inside their bands; no
\* pulse_pressure finding is of the critical tier.
C15_PulsePressureAboveFifty ==
    eval_status = "returned" =>
        /\ \A sy \in SystolicValues, di \in DiastolicValues :
              BloodPressureIs(sy, di) =>
                  FindingsOf("pulse_pressure") =
                      IF sy - di > 50
                        THEN <<Finding("pulse_pressure", sy - di,
                                       "abnormal systolic-diastolic difference", 50,
                                       "medium")>>
                      ELSE <<>>
        /\ \A i \in 1..Len(anomalies) :
              anomalies[i].vital = "pulse_pressure" => ~IsCriticalFinding(anomalies[i])

\* a difference of exactly 50 between two values outside their bands
C15_Witness ==
    /\ eval_status = "returned"
    /\ BloodPressureIs(180, 130)
    /\ FindingsOf("pulse_pressure") = <<>>
    /\ Len(BloodPressureFindings) = 3

\* the severity the claim gives each reason
SeverityOfReason(reason) ==
    CASE reason \in {"below normal", "above normal"} -> "medium"
      [] reason \in {"critically low", "critically high"} -> "high"
      [] reason = "abnormal systolic-diastolic difference" -> "medium"
      [] OTHER -> "none"

\* C20: the severity of a finding depends on its reason alone: below normal
\* and above normal are medium, critically low and critically high are
\* high, and the pulse-pressure finding is medium, whatever the vital and
\* the value.
C20_SeverityFollowsReason ==
    eval_status = "returned" =>
        \A i \in 1..Len(anomalies) :
            /\ anomalies[i].severity = SeverityOfReason(anomalies[i].reason)
            /\ anomalies[i].vital = "pulse_pressure" <=>
                   anomalies[i].reason = "abnormal systolic-diastolic difference"

\* one evaluation that gave findings of all five reasons
C20_Witness ==
    /\ eval_status = "returned"
    /\ {anomalies[i].reason : i \in 1..Len(anomalies)} =
          {"below normal", "above normal", "critically low", "critically high",
           "abnormal systolic-diastolic difference"}
    /\ {anomalies[i].severity : i \in 1..Len(anomalies)} = {"medium", "high"}

\* the record cut down to the one field `key`
OnlyField(pd, key) == [k \in DOMAIN pd \cap {key} |-> pd[k]]

\* C21: a vital that is absent from the record gives no finding of that
\* vital, a record without any vital gives the empty list, and the
\* findings of a vital that is present are those of the record holding
\* that vital alone, whichever other vitals are absent.
C21_AbsentVitalGivesNoFinding ==
    eval_status = "returned" =>
        /\ \A key \in ScalarKeys :
              /\ key \notin DOMAIN patient_data => FindingsOf(key) = <<>>
              /\ FindingsOf(key) =
                     check_vital_thresholds(OnlyField(patient_data, key)).anomalies
        /\ "blood_pressure" \notin DOMAIN patient_data => BloodPressureFindings = <<>>
        /\ BloodPressureFindings =
              check_vital_thresholds(OnlyField(patient_data, "blood_pressure")).anomalies
        /\ DOMAIN patient_data = {} => anomalies = <<>>
        /\ \A i \in 1..Len(anomalies) : anomalies[i].reason # "missing"

\* heart rate alone in the record, with its two findings and nothing else
C21_Witness ==
    /\ eval_status = "returned"
    /\ DOMAIN patient_data = {"heart_rate"}
    /\ Len(anomalies) = 2
    /\ \A i \in 1..Len(anomalies) : anomalies[i].vital = "heart_rate"

-----------------------------------------------------------------------------
(* process_anomalies called from several threads at once.  The interpreter  *)
(* may switch threads between any two of: the membership test of line 73,  *)
(* the store of line 74, the load of alert_history[patient_id] and the     *)
(* append of line 76.  Thread t stamps its alert with timestamp t.         *)

ThreadInputs ==
    {CallInput(0, SomeVitals, <<>>, TRUE),
     CallInput(0, SomeVitals, <<HrAbove>>, TRUE),
     CallInput(0, SomeVitals, <<Bare>>, TRUE)}

ThreadAlert(t) ==
    Alert(args[t].timestamp, AlertLevel(args[t].anomalies), args[t].anomalies,
          args[t].vitals)

\* lines 49-70: the guard, the level, the message and the logger call
TBegin(t, patient_id, in) ==
    /\ pc[t] = "idle"
    /\ LET mine == [in EXCEPT !.timestamp = t]
           level == AlertLevel(mine.anomalies)
           msg == format_alert_message(patient_id, t, mine.vitals, mine.anomalies, level)
           stops == mine.anomalies = <<>> \/ msg.raised
           status == IF mine.anomalies # <<>> /\ msg.raised THEN "raised" ELSE "returned"
       IN  /\ args' = [args EXCEPT ![t] = CallRecord(patient_id, mine, status)]
           /\ calls' = Append(calls, CallRecord(patient_id, mine, status))
           /\ pc' = [pc EXCEPT ![t] = IF stops THEN "done" ELSE "check"]
           /\ sink' = IF ~stops /\ mine.handler_ok /\ LogMethod(level) # "none"
                        THEN Append(sink, <<LogMethod(level), msg.message>>)
                      ELSE sink
    /\ UNCHANGED <<alert_history, lists, seen, ref, ret, evalVars, expVars, detVars, auxVars>>

\* the membership test waiting for a lock shared by all patients: it cannot
\* run while another thread is between its own test and its append
TCheckLocked(t) ==
    /\ pc[t] = "check"
    /\ \A u \in Threads \ {t} : pc[u] \notin {"create", "load", "append"}
    /\ seen' = [seen EXCEPT ![t] = args[t].patient_id \notin DOMAIN alert_history]
    /\ pc' = [pc EXCEPT ![t] = IF args[t].patient_id \notin DOMAIN alert_history
                                 THEN "create" ELSE "load"]
    /\ UNCHANGED <<alert_history, lists, sink, calls, ret, args, ref, evalVars, expVars, detVars, auxVars>>

\* line 73: if patient_id not in self.alert_history
TCheck(t) ==
    /\ pc[t] = "check"
    /\ seen' = [seen EXCEPT ![t] = args[t].patient_id \notin DOMAIN alert_history]
    /\ pc' = [pc EXCEPT ![t] = IF args[t].patient_id \notin DOMAIN alert_history
                                 THEN "create" ELSE "load"]
    /\ UNCHANGED <<alert_history, lists, sink, calls, ret, args, ref, evalVars, expVars, detVars, auxVars>>

\* line 74: self.alert_history[patient_id] = []
TCreate(t) ==
    /\ pc[t] = "create"
    /\ alert_history' = WithNewList(alert_history, args[t].patient_id, Len(lists) + 1)
    /\ lists' = Append(lists, <<>>)
    /\ pc' = [pc EXCEPT ![t] = "load"]
    /\ UNCHANGED <<sink, calls, ret, args, seen, ref, evalVars, expVars, detVars, auxVars>>

\* line 76, first half: self.alert_history[patient_id]
TLoad(t) ==
    /\ pc[t] = "load"
    /\ ref' = [ref EXCEPT ![t] = alert_history[args[t].patient_id]]
    /\ pc' = [pc EXCEPT ![t] = "append"]
    /\ UNCHANGED <<alert_history, lists, sink, calls, ret, args, seen, evalVars, expVars, detVars, auxVars>>

\* line 76, second half: .append({...}) on the list that was loaded
TAppend(t) ==
    /\ pc[t] = "append"
    /\ lists' = [lists EXCEPT ![ref[t]] = Append(@, ThreadAlert(t))]
    /\ pc' = [pc EXCEPT ![t] = "done"]
    /\ UNCHANGED <<alert_history, sink, calls, ret, args, seen, ref, evalVars, expVars, detVars, auxVars>>

NextConc ==
    \/ \E t \in Threads, p \in Patients, in \in ThreadInputs : TBegin(t, p, in)
    \/ \E t \in Threads : TCheck(t)
    \/ \E t \in Threads : TCreate(t)
    \/ \E t \in Threads : TLoad(t)
    \/ \E t \in Threads : TAppend(t)

SpecConc == Init /\ [][NextConc]_vars

AllDone == \A t \in Threads : pc[t] = "done"

\* thread t's call built an alert and went on to store it
Stores(t, p) ==
    args[t].patient_id = p /\ args[t].anomalies # <<>> /\ args[t].status = "returned"

\* C2: once concurrent process_anomalies calls have all finished, the
\* patient's history holds the alert of every call that stored one exactly
\* once: no update is lost and none is duplicated.
C2_NoLostUpdate ==
    AllDone =>
        \A p \in Patients :
            /\ \A t \in Threads :
                  Stores(t, p) =>
                      Cardinality({j \in 1..Len(History(p)) :
                                      History(p)[j] = ThreadAlert(t)}) = 1
            /\ Len(History(p)) = Cardinality({t \in Threads : Stores(t, p)})

\* C27: in every state a reader running beside process_anomalies calls can
\* observe, the states between the steps of a call included, each patient
\* that has a key in alert_history has at least one alert under it.
C27_NoEmptyHistoryVisible ==
    \A p \in DOMAIN alert_history : Len(lists[alert_history[p]]) >= 1

\* how far a call has come
PcRank(at) ==
    CASE at = "idle" -> 0
      [] at = "check" -> 1
      [] at = "create" -> 2
      [] at = "load" -> 3
      [] at = "append" -> 4
      [] at = "done" -> 5

\* the next step of thread t's call can be taken
CanStep(t) ==
    \/ ENABLED TCheck(t)
    \/ ENABLED TCreate(t)
    \/ ENABLED TLoad(t)
    \/ ENABLED TAppend(t)

-----------------------------------------------------------------------------
(* export_alerts_to_json running beside process_anomalies calls of other   *)
(* threads.  json.dump with indent=2 walks the live dict with the          *)
(* interpreter's generators and writes the document piece by piece, so     *)
(* other threads run between two pieces.  Here a thread switch is allowed  *)
(* between two items of the dict; each process_anomalies call is taken as  *)
(* one step.                                                               *)

MaxExportCalls == 4     \* process_anomalies calls beside the export

ExportInputs ==
    {CallInput(1, SomeVitals, <<HrAbove>>, TRUE),
     CallInput(2, SomeVitals, <<TempCritical>>, TRUE)}

\* the keys of the dict in insertion order; a key is inserted together with
\* its list object, and list objects are numbered in creation order
KeyOrder(h) ==
    [i \in 1..Cardinality(DOMAIN h) |->
        CHOOSE k \in DOMAIN h : Cardinality({j \in DOMAIN h : h[j] <= h[k]}) = i]

\* the content of alert_history: patient_id -> list of alerts
HistoryMap(h, l) == [p \in DOMAIN h |-> l[h[p]]]

RECURSIVE CountAlerts(_, _, _)
\* sum(len(alerts) for alerts in self.alert_history.values())
CountAlerts(h, l, keys) ==
    IF keys = {} THEN 0
    ELSE LET k == CHOOSE x \in keys : TRUE IN
         Len(l[h[k]]) + CountAlerts(h, l, keys \ {k})

\* a process_anomalies call of another thread
ExportRecord(patient_id, in) ==
    LET out == process_anomalies(alert_history, lists, sink, patient_id, in.timestamp,
                                 in.vitals, in.anomalies, in.handler_ok)
    IN  /\ Len(calls) < MaxExportCalls
        /\ alert_history' = out.alert_history
        /\ lists' = out.lists
        /\ sink' = out.sink
        /\ calls' = Append(calls, CallRecord(patient_id, in, out.status))
        /\ snapshots' = IF export.pc \in {"iter", "count"}
                          THEN snapshots \cup {HistoryMap(out.alert_history, out.lists)}
                        ELSE snapshots
        /\ UNCHANGED <<ret, export, evalVars, thrVars, detVars, auxVars>>

\* json.dump begins: an empty dict is written as "{}" at once, otherwise the
\* iterator over the items is created and remembers the size of the dict
ExportOpen ==
    /\ export.pc = "idle"
    /\ export' = [export EXCEPT
                    !.pc = IF DOMAIN alert_history = {} THEN "count" ELSE "iter",
                    !.used = Cardinality(DOMAIN alert_history)]
    /\ snapshots' = {HistoryMap(alert_history, lists)}
    /\ UNCHANGED <<mgrVars, evalVars, thrVars, detVars, auxVars>>

\* the next item of the dict is asked for and written; the iterator raises
\* RuntimeError when the dict has changed size since it was created
ExportItem ==
    /\ export.pc = "iter"
    /\ export' =
          IF Cardinality(DOMAIN alert_history) # export.used
            THEN [export EXCEPT !.pc = "done", !.status = "raised"]
          ELSE IF export.pos = export.used
            THEN [export EXCEPT !.pc = "count"]
          ELSE LET key == KeyOrder(alert_history)[export.pos + 1] IN
               [export EXCEPT
                  !.pos = @ + 1,
                  !.doc = Append(@, [key |-> key,
                                     value |-> lists[alert_history[key]]])]
    /\ UNCHANGED <<snapshots, mgrVars, evalVars, thrVars, detVars, auxVars>>

\* the file is closed and the number of alerts is printed
ExportCount ==
    /\ export.pc = "count"
    /\ export' = [export EXCEPT
                    !.pc = "done", !.status = "returned",
                    !.count = CountAlerts(alert_history, lists, DOMAIN alert_history)]
    /\ UNCHANGED <<snapshots, mgrVars, evalVars, thrVars, detVars, auxVars>>

NextExport ==
    \/ \E p \in Patients, in \in ExportInputs : ExportRecord(p, in)
    \/ ExportOpen
    \/ ExportItem
    \/ ExportCount

SpecExport == Init /\ [][NextExport]_vars

\* the mapping the written document holds
Exported == [p \in {export.doc[i].key : i \in 1..Len(export.doc)} |->
                LET i == CHOOSE i \in 1..Len(export.doc) : export.doc[i].key = p
                IN  export.doc[i].value]

\* C16: an export that runs beside process_anomalies calls ends without an
\* exception, and the mapping it wrote is the content alert_history had at
\* one single moment between the start and the end of the export.
C16_ExportIsSnapshot ==
    export.pc = "done" =>
        /\ export.status = "returned"
        /\ Exported \in snapshots

-----------------------------------------------------------------------------
(* The pipeline of main.py: each record goes through                       *)
(* check_vital_thresholds, and a record with findings is handed to         *)
(* process_anomalies with the vitals read from the record.                 *)

MaxPipelineCalls == 1   \* process_anomalies calls made by the pipeline

PipelineBP ==
    {Absent, Present(Str(<<"2", "0", "0", "/", "x">>))}
    \cup {Present(Str(FormatBP(sy, di))) : sy \in {80, 120, 121, 181},
                                           di \in {49, 80, 130}}

PipelineRecords ==
    \* one scalar vital alone, at each test value
    {MkRecord(hr, Absent, Absent, Absent, Absent) : hr \in TestValues("heart_rate")}
    \cup {MkRecord(Absent, temp, Absent, Absent, Absent) :
            temp \in TestValues("temperature")}
    \cup {MkRecord(Absent, Absent, oxy, Absent, Absent) :
            oxy \in TestValues("oxygen_saturation")}
    \cup {MkRecord(Absent, Absent, Absent, resp, Absent) :
            resp \in TestValues("respiratory_rate")}
    \* blood pressures, alone and beside scalar findings
    \cup {MkRecord(hr, Absent, Absent, Absent, bp) :
            hr \in {Absent, Present(Num(101))}, bp \in PipelineBP}
    \cup {MkRecord(Present(Num(131)), Absent, Present(Num(89)), Absent, bp) :
            bp \in {Present(Str(FormatBP(120, 80))), Present(Str(FormatBP(181, 130)))}}
    \cup {MkRecord(Absent, temp, Absent, resp, Absent) :
            temp \in {Present(Num(349)), Present(Num(376))},
            resp \in {Present(Num(9)), Present(Num(21)), Present(Num(26))}}
    \* records check_vital_thresholds raises on
    \cup {MkRecord(Present(Str(<<"7", "5">>)), Absent, Present(Num(89)), Absent, Absent),
          MkRecord(Present(Num(131)), Absent, Absent, Absent, Present(Null))}

VitalKeys ==
    {"heart_rate", "temperature", "blood_pressure", "oxygen_saturation",
     "respiratory_rate"}

\* the "vitals" dict of a result: record.get(key) for the five vitals
VitalsOf(record) ==
    Dict([k \in VitalKeys |-> IF k \in DOMAIN record THEN record[k] ELSE Null])

\* one record through detect_anomalies (threshold detector) and
\* generate_alerts; an exception of check_vital_thresholds ends the run
PipelineStep(patient_id, record) ==
    LET out == check_vital_thresholds(record)
        timestamp == Len(calls) + 1
        stored == process_anomalies(alert_history, lists, sink, patient_id, timestamp,
                                    VitalsOf(record), out.anomalies, TRUE)
    IN  /\ eval_status # "raised"
        /\ Len(calls) < MaxPipelineCalls
        /\ patient_data' = record
        /\ anomalies' = out.anomalies
        /\ eval_status' = out.status
        /\ IF out.status = "returned" /\ out.anomalies # <<>>
             THEN /\ alert_history' = stored.alert_history
                  /\ lists' = stored.lists
                  /\ sink' = stored.sink
                  /\ calls' = Append(calls,
                                     CallRecord(patient_id,
                                                CallInput(timestamp, VitalsOf(record),
                                                          out.anomalies, TRUE),
                                                stored.status))
                  /\ ret' = [op |-> "process_anomalies", patient_id |-> patient_id,
                             limit |-> 0, status |-> stored.status, value |-> <<>>]
           ELSE UNCHANGED mgrVars
        /\ UNCHANGED <<thrVars, expVars, detVars, auxVars>>

NextPipeline == \E p \in Patients, record \in PipelineRecords : PipelineStep(p, record)

SpecPipeline == Init /\ [][NextPipeline]_vars

\* C19: every alert the pipeline records has the level MEDIUM or HIGH (LOW
\* and CRITICAL never occur), and the level is HIGH exactly when one of the
\* alert's findings is of the critical band.
C19_PipelineLevelIsMediumOrHigh ==
    \A p \in Patients : \A i \in 1..Len(History(p)) :
        LET alert == History(p)[i] IN
        /\ alert.level \in {"MEDIUM", "HIGH"}
        /\ alert.level = "HIGH" <=>
               \E j \in 1..Len(alert.anomalies) : IsCriticalFinding(alert.anomalies[j])

\* an alert of level HIGH recorded for a record with a critical finding
\* among normal-band ones
C19_Witness ==
    /\ Len(History("p1")) = 1
    /\ History("p1")[1].level = "HIGH"
    /\ patient_data = MkRecord(Absent, Absent, Present(Num(89)), Absent, Absent)
    /\ Len(History("p1")[1].anomalies) = 2

-----------------------------------------------------------------------------
(* SimpleAnomalyDetector built on a range table other than the configured  *)
(* one.  __init__ stores the table it finds in config.settings; the checks *)
(* look an entry up only when the record holds a value for that vital.     *)
(* Every entry of the tables below has its four bounds.                    *)

RangeKeys ==
    {"heart_rate", "temperature", "oxygen_saturation", "respiratory_rate",
     "blood_pressure_systolic", "blood_pressure_diastolic"}

\* the configured table with one entry left out
TableWithout(key) == [k \in DOMAIN VITAL_RANGES \ {key} |-> VITAL_RANGES[k]]

\* the configured table with min and max of one entry exchanged
TableInverted(key) ==
    [VITAL_RANGES EXCEPT ![key] = [@ EXCEPT !.min = VITAL_RANGES[key].max,
                                            !.max = VITAL_RANGES[key].min]]

RangeTables ==
    {VITAL_RANGES, TableInverted("heart_rate")}
    \cup {TableWithout(k) :
            k \in {"heart_rate", "oxygen_saturation", "blood_pressure_diastolic"}}

\* the scalar block on the table `ranges`: self.vital_ranges[key] is a
\* KeyError when the entry is missing, and is reached only for a truthy value
ScalarCheckWith(ranges, pd, key) ==
    IF key \notin DOMAIN pd THEN Returned(<<>>)
    ELSE LET v == pd[key] IN
         IF ~Truthy(v) THEN Returned(<<>>)
         ELSE IF key \notin DOMAIN ranges THEN Raised
         ELSE IF v.kind = "str" THEN Raised
         ELSE IF key = "oxygen_saturation"
              THEN Returned(OxygenFindings(v.num, ranges[key]))
         ELSE Returned(BandFindings(key, v.num, ranges[key]))

\* the blood-pressure block on the table `ranges`: the two lookups are
\* inside the try block, whose except clause does not catch KeyError
BloodPressureCheckWith(ranges, pd) ==
    IF "blood_pressure" \notin DOMAIN pd THEN Returned(<<>>)
    ELSE LET v == pd["blood_pressure"] IN
         IF v.kind # "str" THEN Raised
         ELSE LET bp == ParseBloodPressure(v.str) IN
              IF ~bp.ok THEN Returned(<<>>)
              ELSE IF "blood_pressure_systolic" \notin DOMAIN ranges THEN Raised
              ELSE IF "blood_pressure_diastolic" \notin DOMAIN ranges THEN Raised
              ELSE Returned(
                     BandFindings("blood_pressure_systolic", bp.systolic,
                                  ranges["blood_pressure_systolic"])
                     \o BandFindings("blood_pressure_diastolic", bp.diastolic,
                                     ranges["blood_pressure_diastolic"])
                     \o PulsePressureFindings(bp.systolic, bp.diastolic))

check_vital_thresholds_with(ranges, pd) ==
    Then(ScalarCheckWith(ranges, pd, "heart_rate"),
    Then(ScalarCheckWith(ranges, pd, "temperature"),
    Then(ScalarCheckWith(ranges, pd, "oxygen_saturation"),
    Then(ScalarCheckWith(ranges, pd, "respiratory_rate"),
         BloodPressureCheckWith(ranges, pd)))))

InitRanges ==
    /\ InitEvalIdle
    /\ InitManager
    /\ InitThreads
    /\ InitExport
    /\ InitObjects
    /\ InitEvals
    /\ InitStat
    /\ vital_ranges = <<>>
    /\ detector = "none"

\* detector = SimpleAnomalyDetector(), with `table` as config.settings.VITAL_RANGES
Construct(table) ==
    /\ detector = "none"
    /\ vital_ranges' = table
    /\ detector' = "constructed"
    /\ UNCHANGED <<evalVars, mgrVars, thrVars, expVars, auxVars>>

\* anomalies = detector.check_vital_thresholds(record)
DetectWith(record) ==
    /\ detector = "constructed"
    /\ eval_status = "ready"
    /\ LET out == check_vital_thresholds_with(vital_ranges, record) IN
        /\ patient_data' = record
        /\ anomalies' = out.anomalies
        /\ eval_status' = out.status
    /\ UNCHANGED <<mgrVars, thrVars, expVars, detVars, auxVars>>

NextRanges ==
    \/ \E table \in RangeTables : Construct(table)
    \/ \E record \in PipelineRecords : DetectWith(record)

SpecRanges == InitRanges /\ [][NextRanges]_vars

\* every vital has its entry and the bounds of each entry are in order
ValidTable(ranges) ==
    /\ DOMAIN ranges = RangeKeys
    /\ \A k \in RangeKeys :
          /\ ranges[k].critical_min <= ranges[k].min
          /\ ranges[k].min <= ranges[k].max
          /\ ranges[k].max <= ranges[k].critical_max

\* C23: a range table with a missing or invalid entry is refused when the
\* detector is constructed, so a constructed detector always holds a
\* complete and valid table and no record is evaluated against another one.
C23_InvalidTableIsRejected ==
    detector = "constructed" => ValidTable(vital_ranges)

-----------------------------------------------------------------------------
(* Object identity between the caller and the manager.  Line 76 stores, in  *)
(* the new alert dict, the very list and dict the caller passed as          *)
(* `anomalies` and `vitals`; get_patient_alerts returns a new list holding  *)
(* the stored alert dicts themselves.  `objects` holds these lists, dicts   *)
(* and alert dicts by identity; in this specification the lists of          *)
(* alert_history hold the identities of alert dicts.                        *)

MaxAliasCalls == 2      \* process_anomalies calls
MaxFindings == 3        \* length a caller lets its findings list grow to

AliasInputs ==
    {CallInput(1, SomeVitals, <<>>, TRUE),
     CallInput(1, SomeVitals, <<HrAbove>>, TRUE),
     CallInput(2, SomeVitals, <<HrAbove, TempCritical>>, TRUE)}

\* the caller builds its list and dict and calls process_anomalies with them
AliasRecord(patient_id, in) ==
    LET f == Len(objects.lists) + 1
        v == Len(objects.dicts) + 1
        a == Len(objects.alerts) + 1
        out == process_anomalies(alert_history, lists, sink, patient_id, in.timestamp,
                                 in.vitals, in.anomalies, in.handler_ok)
        stores == out.status = "returned" /\ in.anomalies # <<>>
        fresh == patient_id \notin DOMAIN alert_history
        h1 == IF fresh THEN WithNewList(alert_history, patient_id, Len(lists) + 1)
              ELSE alert_history
        l1 == IF fresh THEN Append(lists, <<>>) ELSE lists
    IN  /\ Len(calls) < MaxAliasCalls
        /\ objects' =
              [lists |-> Append(objects.lists, in.anomalies),
               dicts |-> Append(objects.dicts, in.vitals),
               alerts |-> IF stores
                            THEN Append(objects.alerts,
                                        [timestamp |-> in.timestamp,
                                         level |-> AlertLevel(in.anomalies),
                                         anomalies |-> f, vitals |-> v])
                          ELSE objects.alerts]
        /\ alert_history' = IF stores THEN h1 ELSE alert_history
        /\ lists' = IF stores THEN [l1 EXCEPT ![h1[patient_id]] = Append(@, a)]
                    ELSE lists
        /\ sink' = out.sink
        /\ calls' = Append(calls, CallRecord(patient_id, in, out.status))
        /\ ret' = [op |-> "process_anomalies", patient_id |-> patient_id, limit |-> 0,
                   status |-> out.status, value |-> <<>>]
        /\ UNCHANGED <<evalVars, thrVars, expVars, detVars, evals, stat>>

\* alerts = manager.get_patient_alerts(patient_id, limit)
AliasGet(patient_id, limit) ==
    /\ ret' = [op |-> "get_patient_alerts", patient_id |-> patient_id, limit |-> limit,
               status |-> "returned",
               value |-> get_patient_alerts(alert_history, lists, patient_id, limit)]
    /\ UNCHANGED <<alert_history, lists, sink, calls, objects, evalVars, thrVars,
                   expVars, detVars, evals, stat>>

\* the caller goes on using the list it passed: anomalies.append(...)
CallerAppendsFinding(f) ==
    /\ Len(objects.lists[f]) < MaxFindings
    /\ objects' = [objects EXCEPT !.lists[f] = Append(@, RespAbove)]
    /\ UNCHANGED <<mgrVars, evalVars, thrVars, expVars, detVars, evals, stat>>

\* the caller goes on using the dict it passed: vitals["heart_rate"] = 0
CallerSetsVital(v) ==
    /\ objects.dicts[v].items["heart_rate"] # Num(0)
    /\ objects' = [objects EXCEPT !.dicts[v].items["heart_rate"] = Num(0)]
    /\ UNCHANGED <<mgrVars, evalVars, thrVars, expVars, detVars, evals, stat>>

\* the caller writes to an alert get_patient_alerts gave it: alert["level"] = "LOW"
CallerEditsAlert(i) ==
    /\ ret.op = "get_patient_alerts"
    /\ i \in 1..Len(ret.value)
    /\ objects.alerts[ret.value[i]].level # "LOW"
    /\ objects' = [objects EXCEPT !.alerts[ret.value[i]].level = "LOW"]
    /\ UNCHANGED <<mgrVars, evalVars, thrVars, expVars, detVars, evals, stat>>

NextAlias ==
    \/ \E p \in Patients, in \in AliasInputs : AliasRecord(p, in)
    \/ \E p \in Patients, limit \in 1..MaxLimit : AliasGet(p, limit)
    \/ \E f \in 1..Len(objects.lists) : CallerAppendsFinding(f)
    \/ \E v \in 1..Len(objects.dicts) : CallerSetsVital(v)
    \/ \E i \in 1..MaxAliasCalls : CallerEditsAlert(i)

SpecAlias == Init /\ [][NextAlias]_vars

\* the alert dict `a` as a reader of alert_history sees it
StoredAlert(a) ==
    Alert(objects.alerts[a].timestamp, objects.alerts[a].level,
          objects.lists[objects.alerts[a].anomalies],
          objects.dicts[objects.alerts[a].vitals])

StoredHistory(p) == [i \in 1..Len(History(p)) |-> StoredAlert(History(p)[i])]

\* C24: an alert does not change once process_anomalies has returned:
\* whatever the caller does afterwards with the findings list and the
\* vitals dict it passed, or with an alert it got from get_patient_alerts,
\* each alert in alert_history is still the alert its call recorded.
C24_AlertIsImmutable ==
    \A p \in Patients :
        LET rc == RecordCalls(p) IN
        /\ Len(History(p)) = Len(rc)
        /\ \A i \in 1..Len(rc) : StoredHistory(p)[i] = AlertOfCall(rc[i])

-----------------------------------------------------------------------------
(* check_vital_thresholds called from several threads on one detector.     *)
(* Each call has its own `anomalies` list and reads self.vital_ranges; a   *)
(* thread switch is allowed between two of the five blocks of the method   *)
(* (heart rate, temperature, oxygen, respiratory rate, blood pressure).    *)

\* the fields the method looks at, in the order of its blocks
BlockOrder ==
    <<"heart_rate", "temperature", "oxygen_saturation", "respiratory_rate",
      "blood_pressure">>

ParRecords ==
    {MkRecord(Absent, Absent, Absent, Absent, Absent),
     MkRecord(Present(Num(131)), Absent, Absent, Absent,
              Present(Str(FormatBP(200, 130)))),
     MkRecord(Present(Num(39)), Present(Num(386)), Present(Num(89)), Present(Num(26)),
              Absent),
     MkRecord(Absent, Absent, Present(Num(94)), Absent,
              Present(Str(<<"2", "0", "0", "/", "x">>))),
     MkRecord(Present(Num(131)), Absent, Present(Str(<<"9", "4">>)), Absent, Absent),
     MkRecord(Absent, Present(Num(349)), Absent, Absent, Present(Null))}

NoEval == [pc |-> 0, record |-> <<>>, anomalies |-> <<>>, status |-> "idle",
           beside |-> FALSE]

InitPar ==
    /\ InitEvalIdle
    /\ InitManager
    /\ InitThreads
    /\ InitExport
    /\ InitDetector
    /\ InitObjects
    /\ InitStat
    /\ evals = [t \in Threads |-> NoEval]

\* the block of the method at position `at`, on the detector's table
Block(at, pd) ==
    IF BlockOrder[at] = "blood_pressure"
      THEN BloodPressureCheckWith(vital_ranges, pd)
    ELSE ScalarCheckWith(vital_ranges, pd, BlockOrder[at])

OthersRunning(t) == \E u \in Threads \ {t} : evals[u].status = "running"

\* line 23: anomalies = []
EvalBegin(t, record) ==
    /\ evals[t].status = "idle"
    /\ evals' = [evals EXCEPT ![t] = [pc |-> 1, record |-> record, anomalies |-> <<>>,
                                      status |-> "running", beside |-> OthersRunning(t)]]
    /\ UNCHANGED <<evalVars, mgrVars, thrVars, expVars, detVars, objects, stat>>

\* every call appending to one list kept on the detector instead of a list
\* of its own
EvalBlockShared(t) ==
    /\ evals[t].status = "running"
    /\ LET out == Block(evals[t].pc, evals[t].record) IN
       evals' =
         [u \in Threads |->
            IF u = t
              THEN IF out.status = "raised"
                     THEN [evals[t] EXCEPT !.status = "raised", !.anomalies = <<>>,
                                           !.beside = @ \/ OthersRunning(t)]
                   ELSE [evals[t] EXCEPT
                           !.anomalies = @ \o out.anomalies,
                           !.pc = @ + 1,
                           !.status = IF evals[t].pc = Len(BlockOrder) THEN "returned"
                                      ELSE "running",
                           !.beside = @ \/ OthersRunning(t)]
            ELSE IF evals[u].status = "running" /\ out.status = "returned"
              THEN [evals[u] EXCEPT !.anomalies = @ \o out.anomalies]
            ELSE evals[u]]
    /\ UNCHANGED <<evalVars, mgrVars, thrVars, expVars, detVars, objects, stat>>

\* one block of the method: it reads the record and the table and appends
\* to the call's own list; an exception ends the call with nothing returned
EvalBlock(t) ==
    /\ evals[t].status = "running"
    /\ LET out == Block(evals[t].pc, evals[t].record) IN
       evals' =
         [evals EXCEPT ![t] =
            IF out.status = "raised"
              THEN [@ EXCEPT !.status = "raised", !.anomalies = <<>>,
                             !.beside = @ \/ OthersRunning(t)]
            ELSE [@ EXCEPT !.anomalies = @ \o out.anomalies,
                           !.pc = @ + 1,
                           !.status = IF evals[t].pc = Len(BlockOrder) THEN "returned"
                                      ELSE "running",
                           !.beside = @ \/ OthersRunning(t)]]
    /\ UNCHANGED <<evalVars, mgrVars, thrVars, expVars, detVars, objects, stat>>

NextPar ==
    \/ \E t \in Threads, record \in ParRecords : EvalBegin(t, record)
    \/ \E t \in Threads : EvalBlock(t)

SpecPar == InitPar /\ [][NextPar]_vars

\* C25: check_vital_thresholds is pure: a step of one call changes neither
\* its record, nor the range table, nor anything of another call, and
\* every call that ends, however the calls were interleaved, ends as the
\* same call made alone on its record does.
C25_EvaluateIsPure ==
    /\ [](\A t \in Threads :
            evals[t].status \in {"returned", "raised"} =>
                /\ evals[t].status = check_vital_thresholds(evals[t].record).status
                /\ evals[t].anomalies =
                       check_vital_thresholds(evals[t].record).anomalies)
    /\ [](vital_ranges = VITAL_RANGES)
    /\ [][\A t \in Threads :
              evals[t].status = "running" => evals'[t].record = evals[t].record]_vars

\* two calls that ran beside each other have both returned findings
C25_Witness ==
    /\ evals[1].status = "returned"
    /\ evals[2].status = "returned"
    /\ evals[1].beside
    /\ evals[2].beside
    /\ evals[1].record # evals[2].record
    /\ Len(evals[1].anomalies) = 7
    /\ Len(evals[2].anomalies) = 8

-----------------------------------------------------------------------------
(* The level of an alert, for findings with any severity string            *)

MaxSeverities == 3      \* findings in the list handed to process_anomalies

SeverityFindings ==
    {OutlierNoSeverity}
    \cup {Outlier(sev) : sev \in {"low", "medium", "high", "critical", "High", "severe"}}

SeverityLists == UNION {[1..n -> SeverityFindings] : n \in 1..MaxSeverities}

\* one process_anomalies call on a new manager
RecordOnce(in) ==
    /\ calls = <<>>
    /\ ProcessAnomalies("p1", in)

NextLevel == \E fs \in SeverityLists : RecordOnce(CallInput(1, SomeVitals, fs, TRUE))

SpecLevel == Init /\ [][NextLevel]_vars

\* the highest of the four levels named by a finding of the list, LOW when
\* no finding names one
HighestKnown(fs) ==
    LET ks == {OrderIndex(Upper(fs[k]["severity"])) :
                 k \in {k \in 1..Len(fs) : HasKnownSeverity(fs[k])}}
    IN  IF ks = {} THEN "LOW"
        ELSE LevelOrder[CHOOSE m \in ks : \A k \in ks : k <= m]

\* C28: whatever severity strings a non-empty list of findings carries, the
\* level of the alert recorded for it is LOW, MEDIUM, HIGH or CRITICAL; a
\* finding without severity or with one that is not a level never raises
\* the level, so a list of such findings only is recorded at LOW.
C28_LevelIsAlwaysKnown ==
    \A p \in Patients : \A i \in 1..Len(History(p)) :
        LET a == History(p)[i] IN
        /\ a.level \in {"LOW", "MEDIUM", "HIGH", "CRITICAL"}
        /\ a.level = HighestKnown(a.anomalies)
        /\ (\A k \in 1..Len(a.anomalies) : ~HasKnownSeverity(a.anomalies[k])) =>
              a.level = "LOW"

\* recorded at LOW: a finding without severity beside one with "severe"
C28_Witness ==
    /\ Len(History("p1")) = 1
    /\ History("p1")[1].anomalies = <<OutlierNoSeverity, Outlier("severe")>>
    /\ History("p1")[1].level = "LOW"

-----------------------------------------------------------------------------
(* StatisticalAnomalyDetector: add_to_history and detect_anomalies *)

MaxPoints == 11             \* data points kept per patient
MIN_HISTORY_POINTS == 10    \* detect_anomalies, line 307

\* the IsolationForest before fit, and after fit(df): what it holds of the
\* program's state is the frame it was fitted on
Unfitted == [fitted |-> FALSE, on |-> <<>>]
Fit(df) == [fitted |-> TRUE, on |-> df]

NoStatCall == [op |-> "none", patient_id |-> "", status |-> "returned", value |-> FALSE]

\* __init__, lines 270-273
InitStatDetector ==
    stat = [model |-> Unfitted, history |-> <<>>, is_trained |-> FALSE,
            last |-> NoStatCall]

InitStatSpec ==
    /\ InitManager
    /\ InitThreads
    /\ InitEvalIdle
    /\ InitExport
    /\ InitDetector
    /\ InitObjects
    /\ InitEvals
    /\ InitStatDetector

\* the n-th reading of a patient's stream: the heart rate tells the patients
\* and the positions apart, the third blood pressure is not a number
StreamReading(patient_id, n) ==
    MkRecord(Present(Num((IF patient_id = "p1" THEN 60 ELSE 80) + n)),
             Present(Num(370)), Present(Num(97)), Present(Num(16)),
             Present(Str(IF n = 3 THEN <<"n", "/", "a">> ELSE FormatBP(110 + n, 70))))

\* a reading whose blood_pressure is None: None has no split()
NullPressureReading ==
    MkRecord(Present(Num(70)), Present(Num(370)), Present(Num(97)), Present(Num(16)),
             Present(Null))

\* data_point.get(key, 0)
GetOrZero(data_point, key) ==
    IF key \in DOMAIN data_point THEN data_point[key] ELSE Num(0)

\* lines 281-296 and 321-337: the numeric vitals of a data point; systolic
\* and diastolic only when the point has a blood_pressure, both 0 when it
\* does not parse.  A blood_pressure that is not a str raises.
StatVitals(data_point) ==
    LET base == [k \in ScalarKeys |-> GetOrZero(data_point, k)] IN
    IF "blood_pressure" \notin DOMAIN data_point
      THEN [ok |-> TRUE, vitals |-> base]
    ELSE IF data_point["blood_pressure"].kind # "str"
      THEN [ok |-> FALSE, vitals |-> base]
    ELSE LET bp == ParseBloodPressure(data_point["blood_pressure"].str) IN
         [ok |-> TRUE,
          vitals |-> [k \in ScalarKeys \cup {"systolic", "diastolic"} |->
                         IF k = "systolic" THEN Num(bp.systolic)
                         ELSE IF k = "diastolic" THEN Num(bp.diastolic)
                         ELSE base[k]]]

\* lines 277-278: self.history[patient_id] = [] when the key is new
WithPatient(h, patient_id) ==
    [q \in DOMAIN h \cup {patient_id} |-> IF q \in DOMAIN h THEN h[q] ELSE <<>>]

PointsOf(patient_id) ==
    IF patient_id \in DOMAIN stat.history THEN Len(stat.history[patient_id]) ELSE 0

\* add_to_history, lines 275-299
AddToHistory(patient_id, data_point) ==
    /\ PointsOf(patient_id) < MaxPoints
    /\ LET h1 == WithPatient(stat.history, patient_id)
           v == StatVitals(data_point)
       IN  IF ~v.ok
             THEN stat' = [stat EXCEPT !.history = h1,
                              !.last = [op |-> "add", patient_id |-> patient_id,
                                        status |-> "raised", value |-> FALSE]]
           ELSE stat' = [stat EXCEPT
                             !.history = [h1 EXCEPT ![patient_id] = Append(@, v.vitals)],
                             !.last = [op |-> "add", patient_id |-> patient_id,
                                       status |-> "returned", value |-> FALSE]]
    /\ UNCHANGED <<evalVars, mgrVars, thrVars, expVars, detVars, objects, evals>>

\* detect_anomalies without line 316: the model is fitted at every query
DetectStatRefit(patient_id, new_data_point) ==
    /\ IF patient_id \notin DOMAIN stat.history
          \/ PointsOf(patient_id) < MIN_HISTORY_POINTS
         THEN stat' = [stat EXCEPT !.last = [op |-> "detect", patient_id |-> patient_id,
                                             status |-> "returned", value |-> FALSE]]
       ELSE LET df == stat.history[patient_id]
                model1 == Fit(df)
                v == StatVitals(new_data_point)
            IN  IF ~v.ok
                  THEN stat' = [stat EXCEPT !.model = model1, !.is_trained = TRUE,
                                   !.last = [op |-> "detect", patient_id |-> patient_id,
                                             status |-> "raised", value |-> FALSE]]
                ELSE \E prediction \in {-1, 1} :
                       stat' = [stat EXCEPT !.model = model1, !.is_trained = TRUE,
                                   !.last = [op |-> "detect", patient_id |-> patient_id,
                                             status |-> "returned",
                                             value |-> (prediction = -1)]]
    /\ UNCHANGED <<evalVars, mgrVars, thrVars, expVars, detVars, objects, evals>>

\* detect_anomalies, lines 301-345.  What predict() answers is the
\* library's: either answer is taken.
DetectStat(patient_id, new_data_point) ==
    /\ IF patient_id \notin DOMAIN stat.history
          \/ PointsOf(patient_id) < MIN_HISTORY_POINTS
         THEN stat' = [stat EXCEPT !.last = [op |-> "detect", patient_id |-> patient_id,
                                             status |-> "returned", value |-> FALSE]]
       ELSE LET df == stat.history[patient_id]
                model1 == IF ~stat.is_trained THEN Fit(df) ELSE stat.model
                v == StatVitals(new_data_point)
            IN  IF ~v.ok
                  THEN stat' = [stat EXCEPT !.model = model1, !.is_trained = TRUE,
                                   !.last = [op |-> "detect", patient_id |-> patient_id,
                                             status |-> "raised", value |-> FALSE]]
                ELSE \E prediction \in {-1, 1} :
                       stat' = [stat EXCEPT !.model = model1, !.is_trained = TRUE,
                                   !.last = [op |-> "detect", patient_id |-> patient_id,
                                             status |-> "returned",
                                             value |-> (prediction = -1)]]
    /\ UNCHANGED <<evalVars, mgrVars, thrVars, expVars, detVars, objects, evals>>

\* the data points a caller hands over: the next reading of the stream to
\* add_to_history, the latest one to detect_anomalies (main.py, lines 83-84),
\* or a reading without a usable blood pressure
AddInputs(patient_id) ==
    {StreamReading(patient_id, PointsOf(patient_id) + 1), NullPressureReading}

DetectInputs(patient_id) ==
    {StreamReading(patient_id, PointsOf(patient_id)), NullPressureReading}

NextStat ==
    \/ \E patient_id \in Patients : \E data_point \in AddInputs(patient_id) :
          AddToHistory(patient_id, data_point)
    \/ \E patient_id \in Patients : \E data_point \in DetectInputs(patient_id) :
          DetectStat(patient_id, data_point)

SpecStat == InitStatSpec /\ [][NextStat]_vars

\* C29: over any sequence of add_to_history and detect_anomalies calls, a
\* query of a patient with fewer than 10 history points returns False and
\* leaves the model and is_trained alone; add_to_history never touches the
\* model; a query with at least 10 points on an unfitted model fits it on
\* that patient's history and sets is_trained; once is_trained is True it
\* stays True and the model stays the one fitted, whatever patient is
\* queried; and the model is fitted exactly when is_trained is True.
C29_FittedOnceOnFirstQuery ==
    /\ [](stat.is_trained <=> stat.model.fitted)
    /\ [][/\ stat.is_trained => (stat'.is_trained /\ stat'.model = stat.model)
          /\ \A p \in Patients :
               /\ \A dp \in AddInputs(p) :
                    AddToHistory(p, dp) =>
                        /\ stat'.model = stat.model
                        /\ stat'.is_trained = stat.is_trained
               /\ \A dp \in DetectInputs(p) :
                    DetectStat(p, dp) =>
                        IF PointsOf(p) < MIN_HISTORY_POINTS
                          THEN /\ stat'.last.status = "returned"
                               /\ stat'.last.value = FALSE
                               /\ stat'.model = stat.model
                               /\ stat'.is_trained = stat.is_trained
                        ELSE /\ stat'.is_trained
                             /\ ~stat.is_trained => stat'.model = Fit(stat.history[p])]_vars

\* the model was fitted on the first ten points of p1; p1 has had another
\* point since, and the query just answered, of p2 with ten points of its
\* own, found an anomaly with that same fit
C29_Witness ==
    /\ stat.is_trained
    /\ stat.model = Fit([n \in 1..10 |-> StatVitals(StreamReading("p1", n)).vitals])
    /\ "p1" \in DOMAIN stat.history /\ Len(stat.history["p1"]) = 11
    /\ "p2" \in DOMAIN stat.history /\ Len(stat.history["p2"]) = 10
    /\ stat.last = [op |-> "detect", patient_id |-> "p2", status |-> "returned",
                    value |-> TRUE]

====
